---- MODULE Spec2Model ----
(***************************************************************************)
(* Model of the ScaleKit bearer-token authentication middleware            *)
(* (src/middleware.py) as it is installed on the FastAPI application of    *)
(* src/app.py.  Every request is handled by one auth_middleware coroutine  *)
(* on a single cooperative event loop: a coroutine runs without            *)
(* interruption until it awaits call_next or returns.                      *)
(***************************************************************************)
EXTENDS Integers, Sequences, FiniteSets, TLC

\* ------------------------------------------------------------------------
\* Bounds of the model
\* ------------------------------------------------------------------------

\* number of requests the server receives in one behaviour
NumReqs == 2

Reqs == 1..NumReqs

\* ------------------------------------------------------------------------
\* Python string operations used by the middleware
\* ------------------------------------------------------------------------

\* str.startswith(prefix)
StartsWith(s, prefix) ==
    /\ Len(s) >= Len(prefix)
    /\ SubSeq(s, 1, Len(prefix)) = prefix

\* str.find(sub) + 1: position of the first occurrence, 0 when there is none
Find(s, sub) ==
    LET hits == {i \in 1..(Len(s) - Len(sub) + 1) : SubSeq(s, i, i + Len(sub) - 1) = sub}
    IN  IF hits = {} THEN 0 ELSE CHOOSE i \in hits : \A j \in hits : i <= j

\* the operator `sub in s`
Contains(s, sub) == Find(s, sub) # 0

\* str.split(sep), for a non-empty separator
RECURSIVE Split(_, _)
Split(s, sep) ==
    LET idx == Find(s, sep)
    IN  IF idx = 0
        THEN <<s>>
        ELSE <<SubSeq(s, 1, idx - 1)>> \o Split(SubSeq(s, idx + Len(sep), Len(s)), sep)

IsSpace(c) == c \in {" ", "\t", "\n", "\r", "\f"}

\* str.strip()
Strip(s) ==
    LET keep == {i \in 1..Len(s) : ~IsSpace(SubSeq(s, i, i))}
    IN  IF keep = {} THEN ""
        ELSE LET lo == CHOOSE i \in keep : \A j \in keep : i <= j
                 hi == CHOOSE i \in keep : \A j \in keep : i >= j
             IN  SubSeq(s, lo, hi)

\* dict.get(key, default) on the header mapping
Get(headers, key, default) ==
    IF key \in DOMAIN headers THEN headers[key] ELSE default

\* ------------------------------------------------------------------------
\* Process configuration (module config, read once at start)
\* ------------------------------------------------------------------------

PORT == 8000

SK_ENV_URL == "https://env.scalekit.example"

EXPECTED_AUDIENCE == "https://mcp.example/"

\* ------------------------------------------------------------------------
\* Requests the model draws from
\* ------------------------------------------------------------------------

Methods == {"GET"}

\* "/healthz" is a protected path that has the health path as a prefix
Paths == {"/health", "/healthz", "/.well-known/oauth-protected-resource"}

\* a header is absent, or present with a value
Absent == [present |-> FALSE, value |-> ""]

Present(v) == [present |-> TRUE, value |-> v]

AuthOptions ==
    {Absent} \cup
    {Present(v) : v \in {"", "bearer abc123", "Bearer ",
                         "Bearer abc123", "Bearer abc123 Bearer xyz"}}

\* x-forwarded-host, host, x-forwarded-proto
ProxyOptions ==
    { <<Absent, Absent, Absent>>,
      <<Present("api.example.com"), Present("internal:8000"), Present("https")>> }

\* every request carries this header, so that the mapping is never empty
BaseHeaders == ("accept" :> "*/*")

Header(name, opt) == IF opt.present THEN (name :> opt.value) ELSE BaseHeaders

MakeRequest(m, p, auth, proxy) ==
    [ method  |-> m,
      path    |-> p,
      headers |-> BaseHeaders
                  @@ Header("x-forwarded-host", proxy[1])
                  @@ Header("host", proxy[2])
                  @@ Header("x-forwarded-proto", proxy[3])
                  @@ Header("authorization", auth) ]

\* on the public paths the header is never read: absent, malformed, well-formed
PublicAuthOptions == {Absent, Present("bearer abc123"), Present("Bearer abc123")}

Requests ==
    { MakeRequest(m, p, a, x) :
        m \in Methods, p \in {"/healthz"}, a \in AuthOptions, x \in ProxyOptions }
    \cup
    { MakeRequest(m, p, a, x) :
        m \in Methods, p \in Paths \ {"/healthz"}, a \in PublicAuthOptions, x \in ProxyOptions }

\* every combination of the three proxy headers: absent, empty, non-empty
AllProxyOptions ==
    { <<fh, h, fp>> :
        fh \in {Absent, Present(""), Present("api.example.com")},
        h  \in {Absent, Present(""), Present("internal:8000")},
        fp \in {Absent, Present(""), Present("https")} }

\* requests of the specification that explores the challenge header
ProxiedRequests ==
    { MakeRequest(m, p, a, x) :
        m \in Methods, p \in {"/health", "/healthz"},
        a \in {Absent, Present("Bearer abc123")}, x \in AllProxyOptions }

\* requests of the specification that explores scheduling: a public and a
\* protected path, without and with a well-formed token, no proxy headers
ScheduledRequests ==
    { MakeRequest(m, p, a, <<Absent, Absent, Absent>>) :
        m \in Methods, p \in {"/health", "/healthz"},
        a \in {Absent, Present("Bearer abc123")} }

\* placeholder of a slot that holds no request yet
NoRequest == [method |-> "", path |-> "", headers |-> BaseHeaders]

\* the order in which the header mapping is iterated
HeaderOrder == <<"accept", "host", "x-forwarded-host", "x-forwarded-proto", "authorization">>

\* responses the downstream handler (the route layer) may produce
DownstreamResponses ==
    { [status_code |-> 200, media_type |-> "application/json",
       content |-> "{\"status\": \"healthy\"}", headers |-> ("content-length" :> "21")],
      [status_code |-> 404, media_type |-> "application/json",
       content |-> "{\"detail\": \"Not Found\"}", headers |-> ("content-length" :> "22")] }

NoResponse == [status_code |-> 0, media_type |-> "", content |-> "", headers |-> BaseHeaders]

\* ------------------------------------------------------------------------
\* get_www_authenticate_header and the responses of the middleware
\* ------------------------------------------------------------------------

\* variant: an empty x-forwarded-host is used as the host
get_www_authenticate_header_AnyForwardedHost(request) ==
    LET default  == "localhost:" \o ToString(PORT)
        host     == IF "x-forwarded-host" \in DOMAIN request.headers
                    THEN request.headers["x-forwarded-host"]
                    ELSE Get(request.headers, "host", default)
        protocol == Get(request.headers, "x-forwarded-proto", "http")
        base_url == protocol \o "://" \o host
    IN  ("WWW-Authenticate" :>
            ("Bearer realm=\"OAuth\", resource_metadata=\"" \o base_url
             \o "/.well-known/oauth-protected-resource\""))

get_www_authenticate_header(request) ==
    LET default  == "localhost:" \o ToString(PORT)
        host     == IF "x-forwarded-host" \in DOMAIN request.headers
                       /\ request.headers["x-forwarded-host"] # ""
                    THEN request.headers["x-forwarded-host"]
                    ELSE Get(request.headers, "host", default)
        protocol == Get(request.headers, "x-forwarded-proto", "http")
        base_url == protocol \o "://" \o host
    IN  ("WWW-Authenticate" :>
            ("Bearer realm=\"OAuth\", resource_metadata=\"" \o base_url
             \o "/.well-known/oauth-protected-resource\""))

Response(content, media_type, status_code, headers) ==
    [status_code |-> status_code, media_type |-> media_type,
     content |-> content, headers |-> headers]

\* variant: the challenge is built once, from no request
Reject_FixedChallenge(request, message) ==
    Response("{\"error\": \"" \o message \o "\"}", "application/json", 401,
             get_www_authenticate_header(NoRequest))

Reject(request, message) ==
    Response("{\"error\": \"" \o message \o "\"}", "application/json", 401,
             get_www_authenticate_header(request))

\* variant: the health path is matched as a prefix
IsPublicPath_Prefix(path) == Contains(path, ".well-known") \/ StartsWith(path, "/health")

\* variant: only the discovery paths are public
IsPublicPath_WellKnownOnly(path) == Contains(path, ".well-known")

\* ".well-known" in request.url.path or request.url.path == "/health"
IsPublicPath(path) == Contains(path, ".well-known") \/ path = "/health"

\* variant: the scheme is not compared
MissingBearer_NoPrefix(headers) ==
    \/ "authorization" \notin DOMAIN headers
    \/ headers["authorization"] = ""

\* not auth_header or not auth_header.startswith("Bearer ")
MissingBearer(headers) ==
    \/ "authorization" \notin DOMAIN headers
    \/ headers["authorization"] = ""
    \/ ~StartsWith(headers["authorization"], "Bearer ")

\* auth_header.split("Bearer ")[1] is in range
HasSecondPart(auth_header) == Len(Split(auth_header, "Bearer ")) >= 2

\* auth_header.split("Bearer ")[1].strip()
ExtractedToken(auth_header) == Strip(Split(auth_header, "Bearer ")[2])

\* TokenValidationOptions(issuer=..., audience=[...] if ... else None)
ValidationOptions ==
    [issuer   |-> SK_ENV_URL,
     audience |-> IF EXPECTED_AUDIENCE # "" THEN <<EXPECTED_AUDIENCE>> ELSE <<>>]

\* the log lines of the loop over the request headers
HeaderLog(request) ==
    LET names == SelectSeq(HeaderOrder, LAMBDA k : k \in DOMAIN request.headers)
    IN  <<"Request headers for " \o request.method \o " " \o request.path \o ":">>
        \o [i \in 1..Len(names) |-> "  " \o names[i] \o ": " \o request.headers[names[i]]]

\* ------------------------------------------------------------------------
\* State
\* ------------------------------------------------------------------------

VARIABLES
    booted,              \* the module has been imported (lines 31-42 have run)
    scalekit_client,     \* "client" or "None"
    SCALEKIT_AVAILABLE,
    running,             \* the request whose coroutine holds the event loop, 0 when idle
    pc,                  \* per request: position of its auth_middleware coroutine
    request,             \* per request: the Request object
    token,               \* per request: local variable token
    is_valid,            \* per request: "unset", "true", "false" (what the provider returned)
    fault,               \* per request: kind of the exception being handled, "none" when none
    callNext,            \* per request: the arguments of its call_next invocations
    validateCalls,       \* per request: the arguments of its validate_access_token calls
    downstream,          \* per request: what call_next returned, NoResponse when nothing yet
    outcome,             \* per request: "none", "forwarded", "rejected", "raised"
    response,            \* per request: the value auth_middleware returned
    log                  \* per request: the lines it wrote to the logger

vars == <<booted, scalekit_client, SCALEKIT_AVAILABLE, running, pc, request, token,
          is_valid, fault, callNext, validateCalls, downstream, outcome, response, log>>

startup == <<booted, scalekit_client, SCALEKIT_AVAILABLE>>

\* kinds of exception:
\*   "transient"  raised once by a collaborator, gone when the handler runs
\*   "headers"    request.headers raises on every access
\*   "IndexError" the subscript [1] of line 78 is out of range
\*   "provider"   validate_access_token (or building its options) raised
\*   "downstream" call_next raised
FirstFaults == {"transient", "headers"}

Init ==
    /\ booted = FALSE
    /\ scalekit_client = "None"
    /\ SCALEKIT_AVAILABLE = FALSE
    /\ running = 0
    /\ pc = [r \in Reqs |-> "idle"]
    /\ request = [r \in Reqs |-> NoRequest]
    /\ token = [r \in Reqs |-> ""]
    /\ is_valid = [r \in Reqs |-> "unset"]
    /\ fault = [r \in Reqs |-> "none"]
    /\ callNext = [r \in Reqs |-> <<>>]
    /\ validateCalls = [r \in Reqs |-> <<>>]
    /\ downstream = [r \in Reqs |-> NoResponse]
    /\ outcome = [r \in Reqs |-> "none"]
    /\ response = [r \in Reqs |-> NoResponse]
    /\ log = [r \in Reqs |-> <<>>]

\* ------------------------------------------------------------------------
\* Start of the process
\* ------------------------------------------------------------------------

\* module body: construct the ScaleKit client; ok is whether the constructor returned
InitClient(ok) ==
    /\ ~booted
    /\ booted' = TRUE
    /\ scalekit_client' = IF ok THEN "client" ELSE "None"
    /\ SCALEKIT_AVAILABLE' = ok
    /\ UNCHANGED <<running, pc, request, token, is_valid, fault, callNext, validateCalls,
                   downstream, outcome, response, log>>

\* the server accepts a request and schedules auth_middleware(request, call_next)
Arrive(r, req) ==
    /\ booted
    /\ pc[r] = "idle"
    /\ request' = [request EXCEPT ![r] = req]
    /\ pc' = [pc EXCEPT ![r] = "start"]
    /\ UNCHANGED <<startup, running, token, is_valid, fault, callNext, validateCalls,
                   downstream, outcome, response, log>>

\* ------------------------------------------------------------------------
\* auth_middleware
\* ------------------------------------------------------------------------

\* variant: the challenge is built from a request kept in a slot that all
\* requests share
ReturnReject_SharedRequest(r, message, lines) ==
    /\ response' = [response EXCEPT ![r] =
                       Reject(request[IF pc[1] # "idle" THEN 1 ELSE r], message)]
    /\ outcome' = [outcome EXCEPT ![r] = "rejected"]
    /\ log' = [log EXCEPT ![r] = @ \o lines]
    /\ pc' = [pc EXCEPT ![r] = "done"]
    /\ running' = 0

\* return Response(...401...) from inside the outer try
ReturnReject(r, message, lines) ==
    /\ response' = [response EXCEPT ![r] = Reject(request[r], message)]
    /\ outcome' = [outcome EXCEPT ![r] = "rejected"]
    /\ log' = [log EXCEPT ![r] = @ \o lines]
    /\ pc' = [pc EXCEPT ![r] = "done"]
    /\ running' = 0

\* await call_next(request): the coroutine is suspended, the event loop is free
AwaitCallNext(r, at) ==
    /\ callNext' = [callNext EXCEPT ![r] = Append(@, request[r])]
    /\ pc' = [pc EXCEPT ![r] = at]
    /\ running' = 0

Where(r) == request[r].method \o " " \o request[r].path

\* lines 54-59: the coroutine starts and logs the request headers
LogHeaders(r) ==
    /\ pc[r] = "start"
    /\ running = 0
    /\ running' = r
    /\ log' = [log EXCEPT ![r] = @ \o HeaderLog(request[r])]
    /\ pc' = [pc EXCEPT ![r] = "publicCheck"]
    /\ UNCHANGED <<startup, request, token, is_valid, fault, callNext, validateCalls,
                   downstream, outcome, response>>

\* lines 56-59 raise
LogHeadersRaises(r, kind) ==
    /\ pc[r] = "start"
    /\ running = 0
    /\ running' = r
    /\ fault' = [fault EXCEPT ![r] = kind]
    /\ pc' = [pc EXCEPT ![r] = "outerExcept"]
    /\ UNCHANGED <<startup, request, token, is_valid, callNext, validateCalls,
                   downstream, outcome, response, log>>

\* variant: a public path is bypassed only when the request carries no token
PublicCheck_ValidateIfToken(r) ==
    /\ pc[r] = "publicCheck"
    /\ IF IsPublicPath(request[r].path) /\ MissingBearer(request[r].headers)
       THEN /\ AwaitCallNext(r, "bypassAwait")
       ELSE /\ pc' = [pc EXCEPT ![r] = "extract"]
            /\ UNCHANGED <<callNext, running>>
    /\ UNCHANGED <<startup, request, token, is_valid, fault, validateCalls,
                   downstream, outcome, response, log>>

\* lines 61-63: the public-path bypass
PublicCheck(r) ==
    /\ pc[r] = "publicCheck"
    /\ IF IsPublicPath(request[r].path)
       THEN /\ AwaitCallNext(r, "bypassAwait")
       ELSE /\ pc' = [pc EXCEPT ![r] = "extract"]
            /\ UNCHANGED <<callNext, running>>
    /\ UNCHANGED <<startup, request, token, is_valid, fault, validateCalls,
                   downstream, outcome, response, log>>

\* variant: the availability flag is consulted before the header is read
ExtractToken_AvailabilityFirst(r) ==
    /\ pc[r] = "extract"
    /\ IF ~SCALEKIT_AVAILABLE
       THEN /\ ReturnReject(r, "Authentication service unavailable",
                            <<"ScaleKit SDK not available for token validation">>)
            /\ UNCHANGED <<token, fault>>
       ELSE IF MissingBearer(request[r].headers)
       THEN /\ ReturnReject(r, "Missing Bearer token",
                            <<"Auth request for " \o Where(r),
                              "Missing Bearer token for " \o Where(r)>>)
            /\ UNCHANGED <<token, fault>>
       ELSE LET t == ExtractedToken(request[r].headers["authorization"])
            IN  /\ token' = [token EXCEPT ![r] = t]
                /\ log' = [log EXCEPT ![r] = @ \o
                             <<"Auth request for " \o Where(r),
                               "Token extracted, length: " \o ToString(Len(t))>>]
                /\ pc' = [pc EXCEPT ![r] = "availCheck"]
                /\ UNCHANGED <<fault, running, outcome, response>>
    /\ UNCHANGED <<startup, request, is_valid, callNext, validateCalls, downstream>>

\* lines 65-79: read the Authorization header and extract the token
ExtractToken(r) ==
    /\ pc[r] = "extract"
    /\ IF MissingBearer(request[r].headers)
       THEN /\ ReturnReject(r, "Missing Bearer token",
                            <<"Auth request for " \o Where(r),
                              "Missing Bearer token for " \o Where(r)>>)
            /\ UNCHANGED <<token, fault>>
       ELSE IF ~HasSecondPart(request[r].headers["authorization"])
       THEN /\ fault' = [fault EXCEPT ![r] = "IndexError"]
            /\ log' = [log EXCEPT ![r] = Append(@, "Auth request for " \o Where(r))]
            /\ pc' = [pc EXCEPT ![r] = "outerExcept"]
            /\ UNCHANGED <<token, running, outcome, response>>
       ELSE LET t == ExtractedToken(request[r].headers["authorization"])
            IN  /\ token' = [token EXCEPT ![r] = t]
                /\ log' = [log EXCEPT ![r] = @ \o
                             <<"Auth request for " \o Where(r),
                               "Token extracted, length: " \o ToString(Len(t))>>]
                /\ pc' = [pc EXCEPT ![r] = "availCheck"]
                /\ UNCHANGED <<fault, running, outcome, response>>
    /\ UNCHANGED <<startup, request, is_valid, callNext, validateCalls, downstream>>

\* variant: a request that finds the client missing constructs it on demand
CheckAvailable_ConstructOnDemand(r) ==
    /\ pc[r] = "availCheck"
    /\ pc' = [pc EXCEPT ![r] = "validate"]
    /\ scalekit_client' = "client"
    /\ SCALEKIT_AVAILABLE' = TRUE
    /\ UNCHANGED <<booted, running, outcome, response, log>>
    /\ UNCHANGED <<request, token, is_valid, fault, callNext, validateCalls, downstream>>

\* variant: the availability flag is not consulted
CheckAvailable_Ignored(r) ==
    /\ pc[r] = "availCheck"
    /\ pc' = [pc EXCEPT ![r] = "validate"]
    /\ UNCHANGED <<startup, running, request, token, is_valid, fault, callNext,
                   validateCalls, downstream, outcome, response, log>>

\* lines 81-88: the availability check
CheckAvailable(r) ==
    /\ pc[r] = "availCheck"
    /\ IF ~SCALEKIT_AVAILABLE
       THEN ReturnReject(r, "Authentication service unavailable",
                         <<"ScaleKit SDK not available for token validation">>)
       ELSE /\ pc' = [pc EXCEPT ![r] = "validate"]
            /\ UNCHANGED <<running, outcome, response, log>>
    /\ UNCHANGED <<startup, request, token, is_valid, fault, callNext, validateCalls,
                   downstream>>

\* an exception raised once in lines 61-88 (by anything the outer try covers)
OuterRaises(r) ==
    /\ pc[r] \in {"publicCheck", "extract", "availCheck"}
    /\ fault' = [fault EXCEPT ![r] = "transient"]
    /\ pc' = [pc EXCEPT ![r] = "outerExcept"]
    /\ UNCHANGED <<startup, running, request, token, is_valid, callNext, validateCalls,
                   downstream, outcome, response, log>>

\* lines 90-102: enter the inner try, build the options, call the provider.
\* validate_access_token is a plain (not awaited) call: the coroutine keeps the loop.
CallProvider(r) ==
    /\ pc[r] = "validate"
    /\ validateCalls' = [validateCalls EXCEPT ![r] =
                            Append(@, [token |-> token[r], options |-> ValidationOptions])]
    /\ log' = [log EXCEPT ![r] = @ \o
                 <<"Validating token with ScaleKit...",
                   "SK_ENV_URL: " \o SK_ENV_URL,
                   "EXPECTED_AUDIENCE: " \o EXPECTED_AUDIENCE>>]
    /\ pc' = [pc EXCEPT ![r] = "inProvider"]
    /\ UNCHANGED <<startup, running, request, token, is_valid, fault, callNext,
                   downstream, outcome, response>>

\* lines 102-116: the provider returns ok (a boolean)
ProviderReturns(r, ok) ==
    /\ pc[r] = "inProvider"
    /\ is_valid' = [is_valid EXCEPT ![r] = IF ok THEN "true" ELSE "false"]
    /\ IF ~ok
       THEN /\ ReturnReject(r, "Invalid token",
                            <<"Token validation result: False",
                              "Token validation failed for " \o Where(r),
                              "Check that SK_ENV_URL matches token issuer and EXPECTED_AUDIENCE matches token audience">>)
            /\ UNCHANGED callNext
       ELSE /\ AwaitCallNext(r, "validAwait")
            /\ log' = [log EXCEPT ![r] = @ \o
                         <<"Token validation result: True",
                           "Authentication successful for " \o Where(r)>>]
            /\ UNCHANGED <<outcome, response>>
    /\ UNCHANGED <<startup, request, token, fault, validateCalls, downstream>>

\* line 102 raises inside the inner try
ProviderRaises(r) ==
    /\ pc[r] = "inProvider"
    /\ fault' = [fault EXCEPT ![r] = "provider"]
    /\ pc' = [pc EXCEPT ![r] = "innerExcept"]
    /\ UNCHANGED <<startup, running, request, token, is_valid, callNext, validateCalls,
                   downstream, outcome, response, log>>

\* lines 63 and 116: call_next returns resp; the coroutine resumes and returns it
CallNextReturns(r, resp) ==
    /\ pc[r] \in {"bypassAwait", "validAwait"}
    /\ running = 0
    /\ downstream' = [downstream EXCEPT ![r] = resp]
    /\ response' = [response EXCEPT ![r] = resp]
    /\ outcome' = [outcome EXCEPT ![r] = "forwarded"]
    /\ pc' = [pc EXCEPT ![r] = "done"]
    /\ UNCHANGED <<startup, running, request, token, is_valid, fault, callNext,
                   validateCalls, log>>

\* lines 63 and 116: call_next raises; line 63 is covered by the outer try only,
\* line 116 lies inside the inner try
CallNextRaises(r) ==
    /\ pc[r] \in {"bypassAwait", "validAwait"}
    /\ running = 0
    /\ running' = r
    /\ fault' = [fault EXCEPT ![r] = "downstream"]
    /\ pc' = [pc EXCEPT ![r] = IF pc[r] = "validAwait" THEN "innerExcept" ELSE "outerExcept"]
    /\ UNCHANGED <<startup, request, token, is_valid, callNext, validateCalls,
                   downstream, outcome, response, log>>

\* variant: the inner handler tries the provider a second time
InnerExcept_RetryOnce(r) ==
    /\ pc[r] = "innerExcept"
    /\ IF fault[r] = "provider" /\ Len(validateCalls[r]) < 2
       THEN /\ pc' = [pc EXCEPT ![r] = "validate"]
            /\ UNCHANGED <<running, outcome, response, log>>
       ELSE ReturnReject(r, "Token validation failed",
                         <<"Token validation exception: " \o fault[r]>>)
    /\ UNCHANGED <<startup, request, token, is_valid, fault, callNext, validateCalls,
                   downstream>>

\* variant: the inner handler re-raises
InnerExcept_Reraise(r) ==
    /\ pc[r] = "innerExcept"
    /\ outcome' = [outcome EXCEPT ![r] = "raised"]
    /\ pc' = [pc EXCEPT ![r] = "done"]
    /\ running' = 0
    /\ UNCHANGED <<startup, request, token, is_valid, fault, callNext, validateCalls,
                   downstream, response, log>>

\* variant: the inner handler puts the exception text into the body
InnerExcept_Leaky(r) ==
    /\ pc[r] = "innerExcept"
    /\ ReturnReject(r, "Token validation failed: " \o fault[r],
                    <<"Token validation exception: " \o fault[r]>>)
    /\ UNCHANGED <<startup, request, token, is_valid, fault, callNext, validateCalls,
                   downstream>>

\* lines 118-128: the inner handler
InnerExcept(r) ==
    /\ pc[r] = "innerExcept"
    /\ ReturnReject(r, "Token validation failed",
                    <<"Token validation exception: " \o fault[r],
                      "Exception type: " \o fault[r],
                      "Traceback: " \o fault[r]>>)
    /\ UNCHANGED <<startup, request, token, is_valid, fault, callNext, validateCalls,
                   downstream>>

\* lines 130-139: the outer handler.  get_www_authenticate_header(request)
\* (line 138) reads request.headers outside any try: when that raises, the
\* exception leaves auth_middleware.
OuterExcept(r) ==
    /\ pc[r] = "outerExcept"
    /\ IF fault[r] = "headers"
       THEN /\ outcome' = [outcome EXCEPT ![r] = "raised"]
            /\ log' = [log EXCEPT ![r] = @ \o
                         <<"Authentication error: " \o fault[r],
                           "Traceback: " \o fault[r]>>]
            /\ pc' = [pc EXCEPT ![r] = "done"]
            /\ running' = 0
            /\ UNCHANGED response
       ELSE ReturnReject(r, "Authentication failed",
                         <<"Authentication error: " \o fault[r],
                           "Traceback: " \o fault[r]>>)
    /\ UNCHANGED <<startup, request, token, is_valid, fault, callNext, validateCalls,
                   downstream>>

Next ==
    \/ \E ok \in BOOLEAN : InitClient(ok)
    \/ \E r \in Reqs, req \in Requests : Arrive(r, req)
    \/ \E r \in Reqs : LogHeaders(r)
    \/ \E r \in Reqs, kind \in FirstFaults : LogHeadersRaises(r, kind)
    \/ \E r \in Reqs : PublicCheck(r)
    \/ \E r \in Reqs : ExtractToken(r)
    \/ \E r \in Reqs : CheckAvailable(r)
    \/ \E r \in Reqs : OuterRaises(r)
    \/ \E r \in Reqs : CallProvider(r)
    \/ \E r \in Reqs, ok \in BOOLEAN : ProviderReturns(r, ok)
    \/ \E r \in Reqs : ProviderRaises(r)
    \/ \E r \in Reqs, resp \in DownstreamResponses : CallNextReturns(r, resp)
    \/ \E r \in Reqs : CallNextRaises(r)
    \/ \E r \in Reqs : InnerExcept(r)
    \/ \E r \in Reqs : OuterExcept(r)

Spec == Init /\ [][Next]_vars

\* any number of requests in flight, drawn from ScheduledRequests
NextScheduled ==
    \/ \E ok \in BOOLEAN : InitClient(ok)
    \/ \E r \in Reqs, req \in ScheduledRequests : Arrive(r, req)
    \/ \E r \in Reqs : LogHeaders(r)
    \/ \E r \in Reqs, kind \in FirstFaults : LogHeadersRaises(r, kind)
    \/ \E r \in Reqs : PublicCheck(r)
    \/ \E r \in Reqs : ExtractToken(r)
    \/ \E r \in Reqs : CheckAvailable(r)
    \/ \E r \in Reqs : OuterRaises(r)
    \/ \E r \in Reqs : CallProvider(r)
    \/ \E r \in Reqs, ok \in BOOLEAN : ProviderReturns(r, ok)
    \/ \E r \in Reqs : ProviderRaises(r)
    \/ \E r \in Reqs, resp \in DownstreamResponses : CallNextReturns(r, resp)
    \/ \E r \in Reqs : CallNextRaises(r)
    \/ \E r \in Reqs : InnerExcept(r)
    \/ \E r \in Reqs : OuterExcept(r)

\* any step of the coroutine of request r, or of the provider or downstream
\* call it waits for
Progress(r) ==
    \/ LogHeaders(r)
    \/ \E kind \in FirstFaults : LogHeadersRaises(r, kind)
    \/ PublicCheck(r)
    \/ ExtractToken(r)
    \/ CheckAvailable(r)
    \/ OuterRaises(r)
    \/ CallProvider(r)
    \/ \E ok \in BOOLEAN : ProviderReturns(r, ok)
    \/ ProviderRaises(r)
    \/ \E resp \in DownstreamResponses : CallNextReturns(r, resp)
    \/ CallNextRaises(r)
    \/ InnerExcept(r)
    \/ OuterExcept(r)

\* the event loop runs every coroutine that is ready, and the provider and the
\* downstream handler answer (by returning or raising) every call
FairSpec == Init /\ [][NextScheduled]_vars /\ \A r \in Reqs : WF_vars(Progress(r))

\* one request at a time, behind every combination of proxy headers
NextProxied ==
    \/ \E ok \in BOOLEAN : InitClient(ok)
    \/ \E req \in ProxiedRequests : Arrive(1, req)
    \/ \E r \in Reqs : LogHeaders(r)
    \/ \E r \in Reqs, kind \in FirstFaults : LogHeadersRaises(r, kind)
    \/ \E r \in Reqs : PublicCheck(r)
    \/ \E r \in Reqs : ExtractToken(r)
    \/ \E r \in Reqs : CheckAvailable(r)
    \/ \E r \in Reqs : OuterRaises(r)
    \/ \E r \in Reqs : CallProvider(r)
    \/ \E r \in Reqs, ok \in BOOLEAN : ProviderReturns(r, ok)
    \/ \E r \in Reqs : ProviderRaises(r)
    \/ \E r \in Reqs, resp \in DownstreamResponses : CallNextReturns(r, resp)
    \/ \E r \in Reqs : CallNextRaises(r)
    \/ \E r \in Reqs : InnerExcept(r)
    \/ \E r \in Reqs : OuterExcept(r)

SpecProxied == Init /\ [][NextProxied]_vars

\* ------------------------------------------------------------------------
\* Vocabulary of the properties
\* ------------------------------------------------------------------------

\* the path is '/health' or has '.well-known' as a substring
PublicPath(p) ==
    \/ p = "/health"
    \/ \E i \in 1..Len(p) : i + 10 <= Len(p) /\ SubSeq(p, i, i + 10) = ".well-known"

\* the Authorization header is present and starts with 'Bearer '
BearerHeader(h) ==
    /\ "authorization" \in DOMAIN h
    /\ Len(h["authorization"]) >= 7
    /\ SubSeq(h["authorization"], 1, 7) = "Bearer "

ErrorBody(message) == "{\"error\": \"" \o message \o "\"}"

\* request r has been received
Received(r) == pc[r] # "idle"

\* auth_middleware has returned or raised for request r
Finished(r) == pc[r] = "done"

\* an exception of a collaborator other than the provider and the downstream
\* handler was raised while request r was being decided
UnexpectedFault(r) == fault[r] \in {"transient", "headers"}

\* auth_middleware returned a 401 of its own with this message
RejectedWith(r, message) ==
    /\ outcome[r] = "rejected"
    /\ response[r].status_code = 401
    /\ response[r].content = ErrorBody(message)

\* ------------------------------------------------------------------------
\* C1
\* ------------------------------------------------------------------------

C2_PublicAlwaysForwarded ==
    \A r \in Reqs :
        (PublicPath(request[r].path) /\ Received(r)) =>
            /\ pc[r] \in {"start", "publicCheck", "bypassAwait", "outerExcept", "done"}
            /\ (pc[r] \notin {"start", "publicCheck"} /\ ~UnexpectedFault(r))
                   => callNext[r] = <<request[r]>>

\* public requests were served through call_next with the adapter unavailable:
\* one without an Authorization header, one with a malformed one
C2_Witness ==
    /\ ~SCALEKIT_AVAILABLE
    /\ \E r \in Reqs :
        /\ request[r].path = "/health"
        /\ "authorization" \notin DOMAIN request[r].headers
        /\ outcome[r] = "forwarded"
    /\ \E r \in Reqs :
        /\ request[r].path = "/.well-known/oauth-protected-resource"
        /\ "authorization" \in DOMAIN request[r].headers
        /\ ~BearerHeader(request[r].headers)
        /\ outcome[r] = "forwarded"

\* ------------------------------------------------------------------------
\* C3
\* ------------------------------------------------------------------------

\* C3: a request to a protected path whose Authorization header is absent,
\* empty or does not start with 'Bearer ' (case-sensitive) never reaches
\* call_next, and, unless an unexpected exception was raised, ends with status
\* 401 and body {"error": "Missing Bearer token"}.
C3_MissingBearerRejected ==
    \A r \in Reqs :
        (Received(r) /\ ~PublicPath(request[r].path) /\ ~BearerHeader(request[r].headers)) =>
            /\ callNext[r] = <<>>
            /\ (Finished(r) /\ ~UnexpectedFault(r)) => RejectedWith(r, "Missing Bearer token")

\* an absent header, an empty header and a lower-case 'bearer ' were each
\* answered with the missing-token rejection
C3_Witness ==
    /\ \E r \in Reqs :
        /\ ~PublicPath(request[r].path)
        /\ "authorization" \in DOMAIN request[r].headers
        /\ request[r].headers["authorization"] = "bearer abc123"
        /\ RejectedWith(r, "Missing Bearer token")
    /\ \E r \in Reqs :
        /\ ~PublicPath(request[r].path)
        /\ \/ "authorization" \notin DOMAIN request[r].headers
           \/ request[r].headers["authorization"] = ""
        /\ RejectedWith(r, "Missing Bearer token")

\* ------------------------------------------------------------------------
\* C4
\* ------------------------------------------------------------------------

\* C4: with the adapter unavailable, a request to a protected path whose
\* Authorization header starts with 'Bearer ' never reaches call_next, and,
\* unless an unexpected exception was raised, ends with status 401 and body
\* {"error": "Authentication service unavailable"}, for every token.
C4_UnavailableRejected ==
    \A r \in Reqs :
        (/\ Received(r)
         /\ ~SCALEKIT_AVAILABLE
         /\ ~PublicPath(request[r].path)
         /\ BearerHeader(request[r].headers)) =>
            /\ callNext[r] = <<>>
            /\ (Finished(r) /\ ~UnexpectedFault(r))
                   => RejectedWith(r, "Authentication service unavailable")

\* two requests with different tokens (one of them empty) were both refused
\* as service-unavailable
C4_Witness ==
    /\ ~SCALEKIT_AVAILABLE
    /\ \E r1, r2 \in Reqs :
        /\ token[r1] = "abc123"
        /\ token[r2] = ""
        /\ BearerHeader(request[r2].headers)
        /\ RejectedWith(r1, "Authentication service unavailable")
        /\ RejectedWith(r2, "Authentication service unavailable")

\* ------------------------------------------------------------------------
\* C5
\* ------------------------------------------------------------------------

C6_ValidForwardedVerbatim ==
    \A r \in Reqs :
        is_valid[r] = "true" =>
            /\ callNext[r] = <<request[r]>>
            /\ (Finished(r) /\ outcome[r] # "raised") =>
                   /\ outcome[r] = "forwarded"
                   /\ response[r] = downstream[r]

\* ------------------------------------------------------------------------
\* C7
\* ------------------------------------------------------------------------

\* C7: a request on which an exception was raised during the decision
\* procedure (lines 54-102) ends with a 401 response returned by
\* auth_middleware: the exception does not leave auth_middleware and the
\* request is not forwarded.
C7_FaultsEndIn401 ==
    \A r \in Reqs :
        (Finished(r) /\ fault[r] \in {"transient", "headers", "provider"}) =>
            /\ outcome[r] = "rejected"
            /\ response[r].status_code = 401
            /\ callNext[r] = <<>>

\* ------------------------------------------------------------------------
\* C8
\* ------------------------------------------------------------------------

\* C8: when call_next raises for a validated request, that exception leaves
\* auth_middleware: no response of the middleware replaces it.
C8_DownstreamFaultPassesThrough ==
    \A r \in Reqs :
        (Finished(r) /\ is_valid[r] = "true" /\ fault[r] = "downstream")
            => outcome[r] = "raised"

\* ------------------------------------------------------------------------
\* C9
\* ------------------------------------------------------------------------

\* C9: every response auth_middleware produces itself has status 401, media
\* type application/json and exactly one header, WWW-Authenticate, whose value
\* is the challenge computed from the headers of the request it answers.
C9_RejectionShape ==
    \A r \in Reqs :
        outcome[r] = "rejected" =>
            /\ response[r].status_code = 401
            /\ response[r].media_type = "application/json"
            /\ response[r].headers = get_www_authenticate_header(request[r])

\* two requests behind different proxies were rejected on different branches,
\* each with its own challenge
C9_Witness ==
    \E r1, r2 \in Reqs :
        /\ outcome[r1] = "rejected"
        /\ outcome[r2] = "rejected"
        /\ "x-forwarded-host" \in DOMAIN request[r1].headers
        /\ "x-forwarded-host" \notin DOMAIN request[r2].headers
        /\ response[r1].content # response[r2].content
        /\ response[r1].headers # response[r2].headers

\* ------------------------------------------------------------------------
\* C10
\* ------------------------------------------------------------------------

FourMessages ==
    {"Missing Bearer token", "Authentication service unavailable", "Invalid token",
     "Authentication failed"}

ChallengeFor(protocol, host) ==
    "Bearer realm=\"OAuth\", resource_metadata=\"" \o protocol \o "://" \o host
    \o "/.well-known/oauth-protected-resource\""

ProtocolIfPresent(h) ==
    IF "x-forwarded-proto" \in DOMAIN h THEN h["x-forwarded-proto"] ELSE "http"

HostIfPresent(h) ==
    IF "host" \in DOMAIN h THEN h["host"] ELSE "localhost:" \o ToString(PORT)

\* C11 as stated: the challenge of every rejection names x-forwarded-proto if
\* present (else http) and x-forwarded-host if present, else host if present,
\* else localhost:<port>.
C11_HostIsForwardedHostIfPresent ==
    \A r \in Reqs :
        outcome[r] = "rejected" =>
            LET h == request[r].headers
            IN  response[r].headers["WWW-Authenticate"] =
                    ChallengeFor(ProtocolIfPresent(h),
                                 IF "x-forwarded-host" \in DOMAIN h
                                 THEN h["x-forwarded-host"] ELSE HostIfPresent(h))

\* C11 (amended): the host is x-forwarded-host if present and non-empty, else
\* host if present (empty or not), else localhost:<port>; the protocol is
\* x-forwarded-proto if present (empty or not), else http.
C11_HostIsForwardedHostIfNonEmpty ==
    \A r \in Reqs :
        outcome[r] = "rejected" =>
            LET h == request[r].headers
            IN  response[r].headers["WWW-Authenticate"] =
                    ChallengeFor(ProtocolIfPresent(h),
                                 IF "x-forwarded-host" \in DOMAIN h /\ h["x-forwarded-host"] # ""
                                 THEN h["x-forwarded-host"] ELSE HostIfPresent(h))

\* a request with an empty x-forwarded-host and a host header was rejected
\* with a challenge that names the host header
C11_Witness ==
    \E r \in Reqs :
        /\ outcome[r] = "rejected"
        /\ "x-forwarded-host" \in DOMAIN request[r].headers
        /\ request[r].headers["x-forwarded-host"] = ""
        /\ "host" \in DOMAIN request[r].headers
        /\ request[r].headers["host"] = "internal:8000"
        /\ "x-forwarded-proto" \notin DOMAIN request[r].headers
        /\ response[r].headers["WWW-Authenticate"] = ChallengeFor("http", "internal:8000")

\* ------------------------------------------------------------------------
\* C12
\* ------------------------------------------------------------------------

\* request q can take its next step in auth_middleware
CanStep(q) ==
    \/ ENABLED LogHeaders(q)
    \/ ENABLED (\E resp \in DownstreamResponses : CallNextReturns(q, resp))
    \/ ENABLED CallNextRaises(q)

\* C12: while a request is inside the provider validation call it is suspended
\* (it does not hold the event loop), and every other in-flight request that
\* waits to start or to resume can take its next step.
C12_OthersProgressDuringValidation ==
    \A r \in Reqs :
        pc[r] = "inProvider" =>
            /\ running # r
            /\ \A q \in Reqs \ {r} :
                   pc[q] \in {"start", "bypassAwait", "validAwait"} => CanStep(q)

\* ------------------------------------------------------------------------
\* C13
\* ------------------------------------------------------------------------

\* what follows 'Bearer ' in the Authorization header of request r
PresentedToken(r) ==
    LET a == request[r].headers["authorization"] IN SubSeq(a, 8, Len(a))

\* the string sub occurs in the string s
Occurs(sub, s) ==
    \E i \in 1..Len(s) : i + Len(sub) - 1 <= Len(s) /\ SubSeq(s, i, i + Len(sub) - 1) = sub

\* C13: no line a request writes to the log contains the bearer token it
\* presented, on any path.
C13_TokenNeverLogged ==
    \A r \in Reqs :
        (BearerHeader(request[r].headers) /\ PresentedToken(r) # "") =>
            \A i \in 1..Len(log[r]) : ~Occurs(PresentedToken(r), log[r][i])

\* ------------------------------------------------------------------------
\* C14
\* ------------------------------------------------------------------------

\* C14: the token handed to the provider is the Authorization header without
\* its leading 'Bearer ' and without surrounding whitespace, also when that
\* remainder contains 'Bearer ' and when it is empty.
C14_TokenIsStrippedRemainder ==
    \A r \in Reqs :
        validateCalls[r] # <<>> =>
            /\ BearerHeader(request[r].headers)
            /\ \A i \in 1..Len(validateCalls[r]) :
                   validateCalls[r][i].token = Strip(PresentedToken(r))

\* C14, the part the code keeps: a header 'Bearer ' with nothing after it is
\* not refused as a missing token; the provider is called with the empty string.
C14_EmptyTokenReachesProvider ==
    \A r \in Reqs :
        (/\ Finished(r) /\ ~UnexpectedFault(r) /\ SCALEKIT_AVAILABLE
         /\ ~PublicPath(request[r].path)
         /\ BearerHeader(request[r].headers) /\ Strip(PresentedToken(r)) = "") =>
            /\ Len(validateCalls[r]) = 1
            /\ validateCalls[r][1].token = ""

\* ------------------------------------------------------------------------
\* C15
\* ------------------------------------------------------------------------

\* C15: the checks run in the order public path, token extraction, adapter
\* availability, validation.  A request is at token extraction or later only
\* if its path is not public, at the availability check or later only if its
\* header starts with 'Bearer ', and at validation or later only if the adapter
\* is available; and the first failing check decides: with the adapter
\* unavailable a protected request without a Bearer header still ends as
\* 'Missing Bearer token', and a public request is still forwarded.
C15_ChecksInFixedOrder ==
    \A r \in Reqs :
        /\ pc[r] \in {"extract", "availCheck", "validate", "inProvider", "validAwait",
                      "innerExcept"}
               => ~PublicPath(request[r].path)
        /\ pc[r] \in {"availCheck", "validate", "inProvider", "validAwait", "innerExcept"}
               => BearerHeader(request[r].headers)
        /\ pc[r] \in {"validate", "inProvider", "validAwait", "innerExcept"}
               => SCALEKIT_AVAILABLE
        /\ (Finished(r) /\ ~UnexpectedFault(r) /\ ~SCALEKIT_AVAILABLE) =>
               /\ PublicPath(request[r].path) => Len(callNext[r]) = 1
               /\ (~PublicPath(request[r].path) /\ ~BearerHeader(request[r].headers))
                      => RejectedWith(r, "Missing Bearer token")
               /\ (~PublicPath(request[r].path) /\ BearerHeader(request[r].headers))
                      => RejectedWith(r, "Authentication service unavailable")

\* with the adapter unavailable, a protected request without a token ended as
\* missing-token and a public one was forwarded
C15_Witness ==
    /\ ~SCALEKIT_AVAILABLE
    /\ \E r1, r2 \in Reqs :
        /\ ~PublicPath(request[r1].path)
        /\ "authorization" \notin DOMAIN request[r1].headers
        /\ RejectedWith(r1, "Missing Bearer token")
        /\ PublicPath(request[r2].path)
        /\ outcome[r2] = "forwarded"

\* ------------------------------------------------------------------------
\* C16
\* ------------------------------------------------------------------------

Failed(r) == is_valid[r] = "false" \/ fault[r] \in {"provider", "downstream"}

Handling(r) == pc[r] \in {"innerExcept", "outerExcept"}

\* C16: for one request the provider is called at most once and the downstream
\* handler is invoked at most once; once validation answered false, the
\* provider raised or the downstream handler raised, the request is in an
\* exception handler or finished, and the handler's one step finishes it with
\* neither call made again.
C16_NoRetry ==
    /\ [](\A r \in Reqs :
            /\ Len(validateCalls[r]) <= 1
            /\ Len(callNext[r]) <= 1
            /\ Failed(r) => (Handling(r) \/ Finished(r)))
    /\ [][\A r \in Reqs :
            /\ (Handling(r) /\ pc'[r] # pc[r]) => Finished(r)'
            /\ Failed(r) => /\ validateCalls'[r] = validateCalls[r]
                            /\ callNext'[r] = callNext[r]]_vars

\* all three failures have happened and ended: a false answer, a provider
\* exception, and a downstream exception after a successful validation
C16_Witness ==
    \E r1, r2 \in Reqs :
        /\ Finished(r1) /\ fault[r1] = "provider" /\ Len(validateCalls[r1]) = 1
        /\ Finished(r2) /\ fault[r2] = "downstream" /\ is_valid[r2] = "true"
        /\ Len(callNext[r2]) = 1

\* ------------------------------------------------------------------------
\* C17
\* ------------------------------------------------------------------------

\* C17: the availability flag and the client are written by the one startup
\* step, which comes before any request is handled, and by no later step; when
\* construction failed the flag is false and the client absent from then on,
\* the provider is never reached, and every request to a non-public path whose
\* Authorization header starts with 'Bearer ' ends as 'Authentication service
\* unavailable' (unless it met an unexpected fault).
C17_AvailabilityFixedAtStartup ==
    /\ [](~booted => \A r \in Reqs : pc[r] = "idle" /\ request[r] = NoRequest)
    /\ [][/\ booted => (booted' /\ SCALEKIT_AVAILABLE' = SCALEKIT_AVAILABLE
                               /\ scalekit_client' = scalekit_client)
          /\ (~booted /\ ~booted') => (SCALEKIT_AVAILABLE' = SCALEKIT_AVAILABLE
                                       /\ scalekit_client' = scalekit_client)]_vars
    /\ []((booted /\ ~SCALEKIT_AVAILABLE) =>
            /\ scalekit_client = "None"
            /\ \A r \in Reqs :
                /\ validateCalls[r] = <<>>
                /\ (/\ Finished(r) /\ ~UnexpectedFault(r)
                    /\ ~PublicPath(request[r].path)
                    /\ BearerHeader(request[r].headers))
                       => RejectedWith(r, "Authentication service unavailable"))

\* construction failed and two requests with well-formed tokens were both
\* rejected as unavailable
C17_Witness ==
    /\ booted /\ ~SCALEKIT_AVAILABLE
    /\ \A r \in Reqs :
        /\ ~PublicPath(request[r].path)
        /\ BearerHeader(request[r].headers)
        /\ RejectedWith(r, "Authentication service unavailable")

\* ------------------------------------------------------------------------
\* C18
\* ------------------------------------------------------------------------

\* everything auth_middleware keeps for request r
OwnState(r) ==
    <<pc[r], request[r], token[r], is_valid[r], fault[r], callNext[r], validateCalls[r],
      downstream[r], outcome[r], response[r], log[r]>>

\* the decision for request r as a function of its own path and headers, the
\* availability flag, the provider's answer for its token, and the exceptions
\* its own collaborators raised: "forward", "raised", or the message of a 401
OwnDecision(r) ==
    LET q == request[r]
    IN  IF fault[r] = "headers" THEN "raised"
        ELSE IF fault[r] = "transient" THEN "Authentication failed"
        ELSE IF PublicPath(q.path)
             THEN IF fault[r] = "downstream" THEN "Authentication failed" ELSE "forward"
        ELSE IF ~BearerHeader(q.headers) THEN "Missing Bearer token"
        ELSE IF ~SCALEKIT_AVAILABLE THEN "Authentication service unavailable"
        ELSE IF fault[r] \in {"provider", "downstream"} THEN "Token validation failed"
        ELSE IF is_valid[r] = "true" THEN "forward"
        ELSE "Invalid token"

OwnChallenge(r) ==
    LET h == request[r].headers
    IN  ChallengeFor(ProtocolIfPresent(h),
                     IF "x-forwarded-host" \in DOMAIN h /\ h["x-forwarded-host"] # ""
                     THEN h["x-forwarded-host"] ELSE HostIfPresent(h))

\* C18: with requests interleaved in every possible way, the outcome of each
\* finished request (forwarded, or which 401 with which challenge) is the one
\* its own path and headers, the availability flag and the provider's answer
\* for it decide, whatever the other requests are and wherever they stand; a
\* step writes the state of at most one request, and a finished request's
\* state is never written again.
C18_OutcomeIndependentOfOthers ==
    /\ [](\A r \in Reqs :
            Finished(r) =>
                CASE OwnDecision(r) = "forward" ->
                         /\ outcome[r] = "forwarded"
                         /\ callNext[r] = <<request[r]>>
                         /\ response[r] = downstream[r]
                  [] OwnDecision(r) = "raised" -> outcome[r] = "raised"
                  [] OTHER ->
                         /\ RejectedWith(r, OwnDecision(r))
                         /\ response[r].headers["WWW-Authenticate"] = OwnChallenge(r))
    /\ [][\A r1, r2 \in Reqs :
            /\ (r1 # r2 /\ OwnState(r1)' # OwnState(r1)) => OwnState(r2)' = OwnState(r2)
            /\ Finished(r1) => OwnState(r1)' = OwnState(r1)]_vars

\* two requests with different proxy headers both finished, one forwarded
\* after validation and one rejected with the challenge of its own headers
C18_Witness ==
    \E r1, r2 \in Reqs :
        /\ r1 # r2
        /\ Finished(r1) /\ outcome[r1] = "forwarded" /\ is_valid[r1] = "true"
        /\ Finished(r2) /\ RejectedWith(r2, "Invalid token")
        /\ request[r1].headers # request[r2].headers
        /\ response[r2].headers["WWW-Authenticate"] = OwnChallenge(r2)
        /\ OwnChallenge(r1) # OwnChallenge(r2)

\* ------------------------------------------------------------------------
\* C19
\* ------------------------------------------------------------------------

\* request r ended in one of the three terminal outcomes: forwarded on the
\* bypass, forwarded after validation, or answered with one 401
TerminalOutcome(r) ==
    /\ Finished(r)
    /\ \/ /\ outcome[r] = "forwarded"
          /\ Len(callNext[r]) = 1
          /\ response[r] = downstream[r]
       \/ /\ outcome[r] = "rejected"
          /\ response[r].status_code = 401

\* C19: under fair scheduling, with a provider and a downstream handler that
\* answer every call, every request that enters auth_middleware eventually
\* reaches a terminal outcome: forwarded (bypass or validated) or one 401.
C19_EveryRequestReachesOneOutcome ==
    \A r \in Reqs : (pc[r] = "start") ~> TerminalOutcome(r)

\* C19, the part the code keeps: every request that enters auth_middleware
\* eventually leaves it, by returning or by raising
C19_EveryRequestFinishes ==
    \A r \in Reqs : (pc[r] = "start") ~> Finished(r)

\* ------------------------------------------------------------------------
\* C20
\* ------------------------------------------------------------------------

\* C20: the provider is called for a request only if its path is not public,
\* its Authorization header starts with 'Bearer ' and the adapter is
\* available; a request that was bypassed, or rejected as missing-token or as
\* service-unavailable, never reached the provider.
C20_ProviderOnlyAfterThreeChecks ==
    \A r \in Reqs :
        /\ (validateCalls[r] # <<>> \/ pc[r] = "inProvider") =>
               /\ ~PublicPath(request[r].path)
               /\ BearerHeader(request[r].headers)
               /\ SCALEKIT_AVAILABLE
        /\ (\/ pc[r] = "bypassAwait"
            \/ PublicPath(request[r].path) /\ outcome[r] = "forwarded"
            \/ RejectedWith(r, "Missing Bearer token")
            \/ RejectedWith(r, "Authentication service unavailable"))
               => validateCalls[r] = <<>>

\* the provider was called for one request, and another one with a token was
\* bypassed on a public path without a call
C20_Witness ==
    \E r1, r2 \in Reqs :
        /\ Len(validateCalls[r1]) = 1
        /\ PublicPath(request[r2].path)
        /\ BearerHeader(request[r2].headers)
        /\ outcome[r2] = "forwarded"
        /\ validateCalls[r2] = <<>>

====
